---- MODULE Spec2Model ----
(***************************************************************************)
(* Model of main.go: the host identity resolver getSystemInfo and the      *)
(* linear set-up sequence of main that consumes its result.                *)
(*                                                                         *)
(* The operating system is the environment.  Its network configuration     *)
(* (the interface list, each interface's hardware address, its address     *)
(* list and whether listing the addresses fails) is fixed in Init and      *)
(* never changes; the outcome of os.Hostname, of net.Interfaces and of the *)
(* library constructors is chosen when the call is made.                   *)
(*                                                                         *)
(* One action is taken per statement of main and per iteration of the      *)
(* outer loop of getSystemInfo (lines 50-67).  The program is              *)
(* single-threaded, so the body of one iteration, including the inner loop *)
(* over the addresses, is one step.                                        *)
(***************************************************************************)
EXTENDS Integers, Sequences, FiniteSets, TLC

\* Largest number of interfaces the OS enumerates.
MaxIfaces == 2
\* Largest number of addresses assigned over all the interfaces together.
MaxAddrs == 2

Nil == "nil"

-----------------------------------------------------------------------------
(* net.IP: a sequence of bytes, 4 long (IPv4) or 16 long (IPv6, or IPv4 in *)
(* its IPv4-in-IPv6 form, which is what the interface table hands out).    *)

v4InV6Prefix == <<0, 0, 0, 0, 0, 0, 0, 0, 0, 0, 255, 255>>

IPv4(a, b, c, d) == v4InV6Prefix \o <<a, b, c, d>>

\* net.IP.To4: the 4-byte form, or Nil when ip is not an IPv4 address.
To4(ip) ==
    IF Len(ip) = 4 THEN ip
    ELSE IF Len(ip) = 16 /\ SubSeq(ip, 1, 12) = v4InV6Prefix
         THEN SubSeq(ip, 13, 16)
         ELSE Nil

IPv6loopback == <<0, 0, 0, 0, 0, 0, 0, 0, 0, 0, 0, 0, 0, 0, 0, 1>>

\* net.IP.IsLoopback: 127.0.0.0/8 or ::1.
IsLoopback(ip) ==
    IF To4(ip) # Nil THEN To4(ip)[1] = 127 ELSE ip = IPv6loopback

\* net.IP.String for the addresses getSystemInfo formats.  It is called
\* only where To4 is not nil (line 58), and then gives the dotted quad.
IPString(ip) ==
    IF Len(ip) = 0 THEN "<nil>"
    ELSE IF To4(ip) # Nil
         THEN LET p == To4(ip)
              IN  ToString(p[1]) \o "." \o ToString(p[2]) \o "." \o
                  ToString(p[3]) \o "." \o ToString(p[4])
         ELSE "<ipv6>"

hexDigit == <<"0", "1", "2", "3", "4", "5", "6", "7",
              "8", "9", "a", "b", "c", "d", "e", "f">>

HexByte(b) == hexDigit[(b \div 16) + 1] \o hexDigit[(b % 16) + 1]

RECURSIVE HexJoin(_)
HexJoin(hw) ==
    IF Len(hw) = 1 THEN HexByte(hw[1])
    ELSE HexByte(hw[1]) \o ":" \o HexJoin(Tail(hw))

\* net.HardwareAddr.String: "" for an empty address, else hex octets
\* joined by colons.
HardwareAddrString(hw) == IF Len(hw) = 0 THEN "" ELSE HexJoin(hw)

-----------------------------------------------------------------------------
(* The configurations the OS may present.                                  *)

\* The net.Addr values Addrs() reports: unicast addresses, each an
\* *net.IPNet.  127.0.0.1, 192.0.2.10, 10.0.0.5, fe80::1 and ::1.
AddrSet ==
    { [isIPNet |-> TRUE, IP |-> IPv4(127, 0, 0, 1)],
      [isIPNet |-> TRUE, IP |-> IPv4(192, 0, 2, 10)],
      [isIPNet |-> TRUE, IP |-> IPv4(10, 0, 0, 5)],
      [isIPNet |-> TRUE, IP |-> <<254, 128, 0, 0, 0, 0, 0, 0,
                                  0, 0, 0, 0, 0, 0, 0, 1>>],
      [isIPNet |-> TRUE, IP |-> IPv6loopback] }

\* Hardware addresses: none (as on a tunnel), or aa:bb:cc:dd:ee:ff.
HWSet == { <<>>, <<170, 187, 204, 221, 238, 255>> }

\* ks[1] + ... + ks[n].
RECURSIVE SumTo(_, _)
SumTo(ks, n) == IF n = 0 THEN 0 ELSE ks[n] + SumTo(ks, n - 1)

\* The interface list in which interface j has hardware address hs[j],
\* fails to list its addresses when es[j], and otherwise has the next ks[j]
\* addresses of the flat list as.
ConfigOf(ks, hs, es, as) ==
    [ j \in DOMAIN ks |->
        [ HardwareAddr |-> hs[j],
          addrsErr |-> es[j],
          addrs |-> [ t \in 1..ks[j] |-> as[SumTo(ks, j - 1) + t] ] ] ]

\* cfg is a list of at most MaxIfaces interfaces with at most MaxAddrs
\* addresses in all; an interface whose Addrs() fails shows none.
IsConfig(cfg) ==
    \E n \in 0..MaxIfaces :
      \E ks \in [1..n -> 0..MaxAddrs] :
        /\ SumTo(ks, n) <= MaxAddrs
        /\ \E hs \in [1..n -> HWSet], es \in [1..n -> BOOLEAN] :
              /\ \A j \in 1..n : es[j] => ks[j] = 0
              /\ \E as \in [1..SumTo(ks, n) -> AddrSet] :
                    cfg = ConfigOf(ks, hs, es, as)

OSHostname == "host-a"

-----------------------------------------------------------------------------
VARIABLES
    interfaces,   \* the OS's interface table, as net.Interfaces returns it
    pc,           \* the statement the program is at
    calls,        \* number of calls of getSystemInfo made so far
    hostErr,      \* whether os.Hostname failed in the current call
    hostname,     \* getSystemInfo's local hostname
    ipAddress,    \* getSystemInfo's local ipAddress
    macAddress,   \* getSystemInfo's local macAddress
    i,            \* index of the next interface of the range loop
    ret,          \* the triple getSystemInfo returned (main's three variables), or <<>>
    exporter,     \* whether the stdout exporter exists
    res,          \* the resource's attributes, <<>> until it is built
    provider,     \* "none", "created", "registered" or "shutdown"
    span,         \* "none", "started" or "ended"
    logEntry,     \* the LogEntry value, Nil until it is built
    output,       \* the lines printed through log.Println
    fatal,        \* the call whose error log.Fatal reported, "" if none
    prev          \* <<hostErr, ret>> of an earlier call of getSystemInfo, or <<>>

locals == <<hostErr, hostname, ipAddress, macAddress, i>>
mainVars == <<exporter, res, provider, span, logEntry, output>>
vars == <<interfaces, pc, calls, hostErr, hostname, ipAddress, macAddress, i,
          ret, exporter, res, provider, span, logEntry, output, fatal, prev>>

-----------------------------------------------------------------------------
(* getSystemInfo, lines 40-70.                                             *)

\* Line 58 with the address not required to be IPv4.
Qualifies_NoTo4(addr) ==
    addr.isIPNet /\ ~IsLoopback(addr.IP)

\* Line 58 with loopback addresses let through.
Qualifies_NoLoopback(addr) ==
    addr.isIPNet /\ To4(addr.IP) # Nil

\* Line 58: the address is an *net.IPNet, not loopback, and IPv4.
Qualifies(addr) ==
    addr.isIPNet /\ ~IsLoopback(addr.IP) /\ To4(addr.IP) # Nil

\* Lines 56-63: index of the address at which the inner loop breaks,
\* 0 when it runs to the end of addrs.
RECURSIVE FirstMatchFrom(_, _)
FirstMatchFrom(addrs, j) ==
    IF j > Len(addrs) THEN 0
    ELSE IF Qualifies(addrs[j]) THEN j
         ELSE FirstMatchFrom(addrs, j + 1)

FirstMatch(addrs) == FirstMatchFrom(addrs, 1)

\* Line 80: main calls getSystemInfo.  The callee's variables come into
\* being at their declarations (lines 41, 49 and 50).
CallGetSystemInfo ==
    /\ pc = "sysinfo"
    /\ pc' = "hostname"
    /\ calls' = calls + 1
    /\ UNCHANGED <<interfaces, locals, ret, mainVars, fatal, prev>>

\* Line 41 with a failed lookup ending the function early.
Hostname_FailReturns ==
    /\ pc = "hostname"
    /\ \E failed \in BOOLEAN :
          /\ hostErr' = failed
          /\ hostname' = IF failed THEN "" ELSE OSHostname
          /\ pc' = IF failed THEN "ret" ELSE "interfaces"
          /\ IF failed
             THEN ipAddress' = "" /\ macAddress' = "" /\ i' = 1
             ELSE UNCHANGED <<ipAddress, macAddress, i>>
    /\ UNCHANGED <<interfaces, calls, ret, mainVars, fatal, prev>>

\* Line 41: hostname, _ := os.Hostname(); on failure the name is "".
Hostname ==
    /\ pc = "hostname"
    /\ \E failed \in BOOLEAN :
          /\ hostErr' = failed
          /\ hostname' = IF failed THEN "" ELSE OSHostname
    /\ pc' = "interfaces"
    /\ UNCHANGED <<interfaces, calls, ipAddress, macAddress, i, ret, mainVars,
                   fatal, prev>>

\* Lines 64-66 without the break.
AfterIface_NoBreak(ip, mac, k) ==
    IF k > Len(interfaces) THEN "ret" ELSE "scan"

\* Lines 64-66 with the break taken on the IPv4 address alone.
AfterIface_IPOnly(ip, mac, k) ==
    IF ip # "" \/ k > Len(interfaces) THEN "ret" ELSE "scan"

\* Where the range loop goes with ip and mac recorded and k the next index:
\* line 64 breaks, or the loop ends with the list.
AfterIface(ip, mac, k) ==
    IF (ip # "" /\ mac # "") \/ k > Len(interfaces) THEN "ret" ELSE "scan"

\* Lines 44-50 with the error logged and the function carrying on.
Interfaces_NotFatal ==
    /\ pc = "interfaces"
    /\ \E failed \in BOOLEAN :
          /\ fatal' = IF failed THEN "interfaces" ELSE fatal
          /\ ipAddress' = ""
          /\ macAddress' = ""
          /\ i' = 1
          /\ pc' = IF failed \/ Len(interfaces) = 0 THEN "ret" ELSE "scan"
    /\ UNCHANGED <<interfaces, calls, hostErr, hostname, ret, mainVars, prev>>

\* Lines 44-50 with the result variables and the loop position kept from
\* one call to the next.
Interfaces_KeepsState ==
    /\ pc = "interfaces"
    /\ \E failed \in BOOLEAN :
          IF failed
          THEN /\ pc' = "exited"
               /\ fatal' = "interfaces"
          ELSE /\ pc' = IF i > Len(interfaces) THEN "ret" ELSE "scan"
               /\ UNCHANGED fatal
    /\ UNCHANGED <<interfaces, calls, locals, ret, mainVars, prev>>

\* Lines 44-50: net.Interfaces(); log.Fatal on error, else the two result
\* variables are declared empty and the range loop starts.
Interfaces ==
    /\ pc = "interfaces"
    /\ \E failed \in BOOLEAN :
          IF failed
          THEN /\ pc' = "exited"
               /\ fatal' = "interfaces"
               /\ UNCHANGED <<ipAddress, macAddress, i>>
          ELSE /\ ipAddress' = ""
               /\ macAddress' = ""
               /\ i' = 1
               /\ pc' = IF Len(interfaces) = 0 THEN "ret" ELSE "scan"
               /\ UNCHANGED fatal
    /\ UNCHANGED <<interfaces, calls, hostErr, hostname, ret, mainVars, prev>>

\* Lines 50-66 with the hardware address recorded for every interface
\* whose addresses could be listed.
ScanIface_MacAlways ==
    /\ pc = "scan"
    /\ i <= Len(interfaces)
    /\ LET iface == interfaces[i]
           m == FirstMatch(iface.addrs)
       IN  IF iface.addrsErr
           THEN /\ UNCHANGED <<ipAddress, macAddress, fatal>>
                /\ pc' = IF i + 1 > Len(interfaces) THEN "ret" ELSE "scan"
           ELSE /\ ipAddress' = IF m # 0 THEN IPString(iface.addrs[m].IP)
                                         ELSE ipAddress
                /\ macAddress' = HardwareAddrString(iface.HardwareAddr)
                /\ pc' = AfterIface(ipAddress', macAddress', i + 1)
                /\ UNCHANGED fatal
    /\ i' = i + 1
    /\ UNCHANGED <<interfaces, calls, hostErr, hostname, ret, mainVars, prev>>

\* Lines 50-66 with a failure of iface.Addrs() treated as fatal.
ScanIface_ErrFatal ==
    /\ pc = "scan"
    /\ i <= Len(interfaces)
    /\ LET iface == interfaces[i]
           m == FirstMatch(iface.addrs)
       IN  IF iface.addrsErr
           THEN /\ UNCHANGED <<ipAddress, macAddress>>
                /\ fatal' = "addrs"
                /\ pc' = "exited"
           ELSE /\ IF m # 0
                   THEN /\ ipAddress' = IPString(iface.addrs[m].IP)
                        /\ macAddress' = HardwareAddrString(iface.HardwareAddr)
                   ELSE UNCHANGED <<ipAddress, macAddress>>
                /\ pc' = AfterIface(ipAddress', macAddress', i + 1)
                /\ UNCHANGED fatal
    /\ i' = i + 1
    /\ UNCHANGED <<interfaces, calls, hostErr, hostname, ret, mainVars, prev>>

\* Lines 50-66: one iteration of the range loop, for interface i.
ScanIface ==
    /\ pc = "scan"
    /\ i <= Len(interfaces)
    /\ LET iface == interfaces[i]
           m == FirstMatch(iface.addrs)
       IN  IF iface.addrsErr
           THEN \* lines 52-54: continue
                /\ UNCHANGED <<ipAddress, macAddress>>
                /\ pc' = IF i + 1 > Len(interfaces) THEN "ret" ELSE "scan"
           ELSE \* lines 56-66
                /\ IF m # 0
                   THEN /\ ipAddress' = IPString(iface.addrs[m].IP)
                        /\ macAddress' = HardwareAddrString(iface.HardwareAddr)
                   ELSE UNCHANGED <<ipAddress, macAddress>>
                /\ pc' = AfterIface(ipAddress', macAddress', i + 1)
    /\ i' = i + 1
    /\ UNCHANGED <<interfaces, calls, hostErr, hostname, ret, mainVars, fatal, prev>>

\* Line 69: return hostname, ipAddress, macAddress.
Return ==
    /\ pc = "ret"
    /\ ret' = <<hostname, ipAddress, macAddress>>
    /\ pc' = "returned"
    /\ UNCHANGED <<interfaces, calls, locals, mainVars, fatal, prev>>

-----------------------------------------------------------------------------
(* main, lines 72-167.                                                     *)

\* Lines 74-77: stdouttrace.New; log.Fatal on error.
NewExporter ==
    /\ pc = "exporter"
    /\ \E failed \in BOOLEAN :
          IF failed
          THEN pc' = "exited" /\ fatal' = "exporter" /\ UNCHANGED exporter
          ELSE pc' = "sysinfo" /\ exporter' = TRUE /\ UNCHANGED fatal
    /\ UNCHANGED <<interfaces, calls, locals, ret, res, provider, span,
                   logEntry, output, prev>>

\* Lines 83-94: resource.New with the four attributes; log.Fatal on error.
NewResource ==
    /\ pc = "returned"
    /\ \E failed \in BOOLEAN :
          IF failed
          THEN pc' = "exited" /\ fatal' = "resource" /\ UNCHANGED res
          ELSE /\ pc' = "provider"
               /\ res' = << <<"service.name", "web-backend">>,
                            <<"host.name", ret[1]>>,
                            <<"host.ip", ret[2]>>,
                            <<"host.mac", ret[3]>> >>
               /\ UNCHANGED fatal
    /\ UNCHANGED <<interfaces, calls, locals, ret, exporter, provider, span,
                   logEntry, output, prev>>

\* Lines 97-105: trace.NewTracerProvider.
NewTracerProvider ==
    /\ pc = "provider"
    /\ provider' = "created"
    /\ pc' = "register"
    /\ UNCHANGED <<interfaces, calls, locals, ret, exporter, res, span,
                   logEntry, output, fatal, prev>>

\* Line 108: otel.SetTracerProvider.
SetTracerProvider ==
    /\ pc = "register"
    /\ provider' = "registered"
    /\ pc' = "span"
    /\ UNCHANGED <<interfaces, calls, locals, ret, exporter, res, span,
                   logEntry, output, fatal, prev>>

\* Lines 111-113: tracer.Start of the example span.
StartSpan ==
    /\ pc = "span"
    /\ span' = "started"
    /\ pc' = "logentry"
    /\ UNCHANGED <<interfaces, calls, locals, ret, exporter, res, provider,
                   logEntry, output, fatal, prev>>

\* Lines 116-155 with the address fields of the record crossed over.
BuildLogEntry_Crossed(h, ip, mac) ==
    [ TraceID |-> "abcd1234",
      SpanID |-> "efgh5678",
      SeverityText |-> "ERROR",
      SeverityNumber |-> "17",
      Resource |-> ("service.name" :> "web-backend" @@ "host.name" :> h @@
                    "host.ip" :> ip @@ "host.mac" :> mac),
      Duration |-> "100ms",
      Status |-> "failed",
      LogLevel |-> "error",
      Hostname |-> h,
      IPAddress |-> mac,
      MacAddress |-> ip ]

\* Lines 116-155: the LogEntry literal (the two timestamps, which are read
\* from the clock, and the maps of fixed strings are left out).
BuildLogEntry(h, ip, mac) ==
    [ TraceID |-> "abcd1234",
      SpanID |-> "efgh5678",
      SeverityText |-> "ERROR",
      SeverityNumber |-> "17",
      Resource |-> ("service.name" :> "web-backend" @@ "host.name" :> h @@
                    "host.ip" :> ip @@ "host.mac" :> mac),
      Duration |-> "100ms",
      Status |-> "failed",
      LogLevel |-> "error",
      Hostname |-> h,
      IPAddress |-> ip,
      MacAddress |-> mac ]

NewLogEntry ==
    /\ pc = "logentry"
    /\ logEntry' = BuildLogEntry(ret[1], ret[2], ret[3])
    /\ pc' = "print"
    /\ UNCHANGED <<interfaces, calls, locals, ret, exporter, res, provider,
                   span, output, fatal, prev>>

\* Lines 18-37 and 158: json.MarshalIndent writes each field under the key
\* of its json tag.
Marshal(e) ==
    "TraceId" :> e.TraceID @@
    "SpanId" :> e.SpanID @@
    "SeverityText" :> e.SeverityText @@
    "SeverityNumber" :> e.SeverityNumber @@
    "Resource" :> e.Resource @@
    "Duration" :> e.Duration @@
    "Status" :> e.Status @@
    "LogLevel" :> e.LogLevel @@
    "host.name" :> e.Hostname @@
    "host.ip" :> e.IPAddress @@
    "host.mac" :> e.MacAddress

\* Lines 158-166: the record is marshalled and printed.
PrintLogEntry ==
    /\ pc = "print"
    /\ output' = << "Log Entry in JSON format:", Marshal(logEntry),
                    "OpenTelemetry is set up and running!" >>
    /\ pc' = "deferred"
    /\ UNCHANGED <<interfaces, calls, locals, ret, exporter, res, provider,
                   span, logEntry, fatal, prev>>

\* Lines 101-105 and 113: main returns; the deferred calls run, span.End
\* and then tracerProvider.Shutdown, whose error is fatal.
RunDeferred ==
    /\ pc = "deferred"
    /\ span' = "ended"
    /\ provider' = "shutdown"
    /\ \E failed \in BOOLEAN :
          IF failed
          THEN pc' = "exited" /\ fatal' = "shutdown"
          ELSE pc' = "done" /\ UNCHANGED fatal
    /\ UNCHANGED <<interfaces, calls, locals, ret, exporter, res, logEntry,
                   output, prev>>

-----------------------------------------------------------------------------
InitCommon ==
    /\ IsConfig(interfaces)
    /\ calls = 0
    /\ hostErr = FALSE
    /\ hostname = ""
    /\ ipAddress = ""
    /\ macAddress = ""
    /\ i = 1
    /\ ret = <<>>
    /\ exporter = FALSE
    /\ res = <<>>
    /\ provider = "none"
    /\ span = "none"
    /\ logEntry = Nil
    /\ output = <<>>
    /\ fatal = ""
    /\ prev = <<>>

\* The program: main from its first statement.
Init == InitCommon /\ pc = "exporter"

Next ==
    \/ NewExporter
    \/ CallGetSystemInfo
    \/ Hostname
    \/ Interfaces
    \/ ScanIface
    \/ Return
    \/ NewResource
    \/ NewTracerProvider
    \/ SetTracerProvider
    \/ StartSpan
    \/ NewLogEntry
    \/ PrintLogEntry
    \/ RunDeferred

Spec == Init /\ [][Next]_vars

\* The resolver called twice in a row against one configuration: after the
\* first call has returned, its result is kept and the call is made again.
CallAgain ==
    /\ pc = "returned"
    /\ prev = <<>>
    /\ prev' = <<hostErr, ret>>
    /\ pc' = "sysinfo"
    /\ UNCHANGED <<interfaces, calls, locals, ret, mainVars, fatal>>

InitCalls == InitCommon /\ pc = "sysinfo"

NextCalls ==
    \/ CallGetSystemInfo
    \/ Hostname
    \/ Interfaces
    \/ ScanIface
    \/ Return
    \/ CallAgain

SpecCalls == InitCalls /\ [][NextCalls]_vars

-----------------------------------------------------------------------------
(* Vocabulary of the properties, stated on the configuration alone.        *)

\* The address is IPv4 and not loopback.
Routable(addr) == To4(addr.IP) # Nil /\ ~IsLoopback(addr.IP)

\* The interface shows an address that is IPv4 and not loopback.
Carries(f) ==
    ~f.addrsErr /\ \E j \in 1..Len(f.addrs) : Routable(f.addrs[j])

\* The interface lists addresses, none of them IPv4.
V6Only(f) ==
    /\ ~f.addrsErr
    /\ Len(f.addrs) > 0
    /\ \A j \in 1..Len(f.addrs) : To4(f.addrs[j].IP) = Nil

\* Position of the first routable address of an interface that carries one.
FirstRoutable(f) ==
    CHOOSE j \in 1..Len(f.addrs) :
        Routable(f.addrs[j]) /\ \A t \in 1..(j - 1) : ~Routable(f.addrs[t])

\* The (IPv4, hardware address) pair of an interface that carries one.
PairOf(f) ==
    << IPString(f.addrs[FirstRoutable(f)].IP), HardwareAddrString(f.HardwareAddr) >>

HasHW(f) == Len(f.HardwareAddr) > 0

Ifaces == 1..Len(interfaces)

\* The pair getSystemInfo returned.
RetPair == <<ret[2], ret[3]>>

\* A step of the range loop that scans interface i.
ScanStep == pc = "scan" /\ i <= Len(interfaces) /\ i' = i + 1

\* Value of the attribute key of a resource.
Attr(r, key) == r[CHOOSE j \in 1..Len(r) : r[j][1] = key][2]

-----------------------------------------------------------------------------
\* C1 (as stated): whenever getSystemInfo has returned, the pair it returned
\* is that of the first enumerated interface carrying a non-loopback IPv4
\* address, whatever the hardware addresses are.
C1_FirstCarrying ==
    pc = "returned" =>
        \A k \in Ifaces :
            (Carries(interfaces[k]) /\ \A t \in 1..(k - 1) : ~Carries(interfaces[t]))
                => RetPair = PairOf(interfaces[k])

\* C1 (amended): the pair returned is that of the first enumerated interface
\* that carries a non-loopback IPv4 address and has a non-empty hardware
\* address; when no carrying interface has a hardware address, it is the
\* first such address of the last carrying interface with an empty hardware
\* address.  Within the interface the address is the first IPv4 non-loopback
\* one of its list; with one carrying interface the result is its pair.
C1_FirstCarryingWithHW ==
    pc = "returned" =>
        \A k \in Ifaces :
            /\ ( /\ Carries(interfaces[k]) /\ HasHW(interfaces[k])
                 /\ \A t \in 1..(k - 1) :
                        ~(Carries(interfaces[t]) /\ HasHW(interfaces[t])) )
                   => RetPair = PairOf(interfaces[k])
            /\ ( /\ Carries(interfaces[k])
                 /\ \A t \in Ifaces : Carries(interfaces[t]) =>
                        (~HasHW(interfaces[t]) /\ t <= k) )
                   => RetPair = PairOf(interfaces[k])

\* Two carrying interfaces, the first without a hardware address, and the
\* call has returned the pair of the second.
C1_Witness ==
    /\ pc = "returned"
    /\ Len(interfaces) = 2
    /\ Carries(interfaces[1]) /\ ~HasHW(interfaces[1])
    /\ Carries(interfaces[2]) /\ HasHW(interfaces[2])
    /\ RetPair = PairOf(interfaces[2])
    /\ RetPair # PairOf(interfaces[1])

\* C2: when no enumerated interface has an address that is IPv4 and not
\* loopback, getSystemInfo returns "" for the IPv4 and the hardware address.
C2_NoneCarries ==
    pc = "returned" =>
        ((\A k \in Ifaces : ~Carries(interfaces[k])) => RetPair = <<"", "">>)

\* An interface with a hardware address whose only IPv4 address is loopback,
\* and the call has returned the empty pair.
C2_Witness ==
    /\ pc = "returned"
    /\ \A k \in Ifaces : ~Carries(interfaces[k])
    /\ \E k \in Ifaces :
          /\ HasHW(interfaces[k])
          /\ \E j \in 1..Len(interfaces[k].addrs) :
                /\ To4(interfaces[k].addrs[j].IP) # Nil
                /\ IsLoopback(interfaces[k].addrs[j].IP)
    /\ RetPair = <<"", "">>

\* C3: scanning an interface with only IPv6 addresses leaves the IPv4 and
\* hardware address as they were and moves on to the next interface (the
\* scan ends only if it was the last); and when such interfaces come first
\* and a carrying interface follows, that interface's IPv4 address has been
\* recorded at return, with its hardware address if it has one.
C3_V6OnlySkipped ==
    /\ [][ (ScanStep /\ V6Only(interfaces[i])) =>
              /\ ipAddress' = ipAddress
              /\ macAddress' = macAddress
              /\ pc' = IF i < Len(interfaces) THEN "scan" ELSE "ret" ]_vars
    /\ [] ( pc = "returned" =>
              \A k \in Ifaces :
                  ( /\ k > 1
                    /\ \A t \in 1..(k - 1) : V6Only(interfaces[t])
                    /\ Carries(interfaces[k]) )
                  => /\ ret[2] # ""
                     /\ HasHW(interfaces[k]) => RetPair = PairOf(interfaces[k]) )

\* An IPv6-only interface came first and the pair of the second was returned.
C3_Witness ==
    /\ pc = "returned"
    /\ Len(interfaces) = 2
    /\ V6Only(interfaces[1])
    /\ Carries(interfaces[2])
    /\ RetPair = PairOf(interfaces[2])

\* C4: when net.Interfaces fails the process has terminated, after one call
\* and with nothing returned: no resource, no tracer provider created or
\* registered, no span, nothing printed; and a terminated process takes no
\* further step.
C4_InterfacesFatal ==
    /\ [] ( fatal = "interfaces" =>
              /\ pc = "exited"
              /\ calls = 1
              /\ ret = <<>>
              /\ res = <<>>
              /\ provider = "none"
              /\ span = "none"
              /\ output = <<>> )
    /\ [][ pc = "exited" => UNCHANGED vars ]_vars

\* net.Interfaces has failed.
C4_Witness ==
    /\ fatal = "interfaces"
    /\ pc = "exited"
    /\ exporter

\* C5: a call in which os.Hostname failed returns the hostname "", has run
\* the scan (to a complete pair or to the end of the list), and returns the
\* same IPv4 and hardware address as the other call on the same
\* configuration, whether or not the hostname lookup succeeded there.
C5_HostnameIndependent ==
    pc = "returned" =>
        /\ hostErr =>
              /\ ret[1] = ""
              /\ (ret[2] # "" /\ ret[3] # "") \/ i = Len(interfaces) + 1
        /\ prev # <<>> => RetPair = <<prev[2][2], prev[2][3]>>

\* The hostname lookup succeeded in the first call and failed in the
\* second, which returned an address.
C5_Witness ==
    /\ pc = "returned"
    /\ prev # <<>>
    /\ ~prev[1]
    /\ hostErr
    /\ ret[2] # ""
    /\ ret[3] # ""

\* C6: two calls on the same configuration with the same outcome of the
\* hostname lookup return the same triple.
C6_Idempotent ==
    (pc = "returned" /\ prev # <<>> /\ prev[1] = hostErr) => ret = prev[2]

\* The second call has returned, after a first call that stopped before
\* the end of the list.
C6_Witness ==
    /\ pc = "returned"
    /\ prev # <<>>
    /\ prev[1] = hostErr
    /\ calls = 2
    /\ ret[2] # ""
    /\ i <= Len(interfaces)

\* C7: getSystemInfo is called at most once, what it returned is never
\* changed, and the host.name, host.ip and host.mac attributes of the
\* resource equal the values of the printed record, in its Resource map and
\* in its top-level fields.
C7_ComputedOnce ==
    /\ [] ( calls <= 1 )
    /\ [][ ret # <<>> => ret' = ret ]_vars
    /\ [] ( output # <<>> =>
              \A key \in {"host.name", "host.ip", "host.mac"} :
                  /\ output[2]["Resource"][key] = Attr(res, key)
                  /\ output[2][key] = Attr(res, key) )
    /\ [] ( output # <<>> =>
              /\ Attr(res, "host.name") = ret[1]
              /\ Attr(res, "host.ip") = ret[2]
              /\ Attr(res, "host.mac") = ret[3] )

\* The record has been printed with a full host identity.
C7_Witness ==
    /\ output # <<>>
    /\ calls = 1
    /\ output[2]["host.name"] # ""
    /\ output[2]["host.ip"] # ""
    /\ output[2]["host.mac"] # ""

\* C8: once both values are recorded the scan is over: the interface just
\* scanned is the first carrying one with a hardware address, no further
\* interface is scanned and the values stay; while a value is missing the
\* scan goes on to the next interface, and it ends with the list.
C8_StopsWhenBoth ==
    /\ [] ( (ipAddress # "" /\ macAddress # "") =>
              /\ pc # "scan"
              /\ Carries(interfaces[i - 1]) /\ HasHW(interfaces[i - 1])
              /\ \A t \in 1..(i - 2) :
                    ~(Carries(interfaces[t]) /\ HasHW(interfaces[t])) )
    /\ [][ (ipAddress # "" /\ macAddress # "") =>
              (ipAddress' = ipAddress /\ macAddress' = macAddress /\ i' = i) ]_vars
    /\ [][ (ScanStep /\ (ipAddress' = "" \/ macAddress' = "")) =>
              pc' = IF i' <= Len(interfaces) THEN "scan" ELSE "ret" ]_vars
    /\ [] ( pc = "ret" =>
              (ipAddress # "" /\ macAddress # "") \/ i = Len(interfaces) + 1 )

\* The scan stopped after the first of two interfaces.
C8_Witness ==
    /\ pc = "ret"
    /\ Len(interfaces) = 2
    /\ i = 2
    /\ ipAddress # ""
    /\ macAddress # ""

\* C9: the recorded hardware address is never non-empty while the IPv4
\* address is empty, and a recorded IPv4 address is the first IPv4
\* non-loopback address of an interface already scanned whose hardware
\* address is the recorded one.
C9_SameInterface ==
    /\ macAddress # "" => ipAddress # ""
    /\ ipAddress # "" =>
          \E k \in 1..(i - 1) :
              /\ Carries(interfaces[k])
              /\ <<ipAddress, macAddress>> = PairOf(interfaces[k])

\* Mid-scan, an IPv4 address is recorded from an interface without a
\* hardware address.
C9_Witness ==
    /\ pc = "scan"
    /\ ipAddress # ""
    /\ macAddress = ""

\* C10: an interface whose Addrs() fails is skipped: the recorded values
\* stay, the scan goes to the next interface or ends with the list, and the
\* process does not terminate; within getSystemInfo only the failure of
\* net.Interfaces terminates it.
C10_AddrsErrSkipped ==
    /\ [][ (ScanStep /\ interfaces[i].addrsErr) =>
              /\ ipAddress' = ipAddress
              /\ macAddress' = macAddress
              /\ fatal' = ""
              /\ pc' = IF i < Len(interfaces) THEN "scan" ELSE "ret" ]_vars
    /\ [][ (pc \in {"hostname", "interfaces", "scan", "ret"} /\ pc' = "exited") =>
              (pc = "interfaces" /\ fatal' = "interfaces") ]_vars

\* An interface whose addresses could not be listed came first, and the
\* call returned the address of the second.
C10_Witness ==
    /\ pc = "returned"
    /\ Len(interfaces) = 2
    /\ interfaces[1].addrsErr
    /\ ret[2] # ""
    /\ fatal = ""

====
